---- MODULE Spec2Model ----
(***************************************************************************)
(* A model of stactools' support utilities:                                *)
(*   - stactools.testing.test_data.TestData  (get_path, get_external_data) *)
(*   - stactools.core.utils                  (map_opt, href_exists)        *)
(*   - stactools.cli.cli                     (setup_logging, cli)          *)
(* Three specifications share the module: SpecData, SpecUtils and SpecCli. *)
(* Each one drives the operations of one source file and leaves the        *)
(* variables of the other two at their initial values.                     *)
(***************************************************************************)
EXTENDS Integers, Sequences, FiniteSets, TLC

VARIABLES
    \* ---- TestData and the local filesystem
    self_path,       \* TestData.path
    external_data,   \* TestData.external_data : rel_path -> entry (or NoEntry)
    files,           \* local paths at which a regular file exists
    dirs,            \* local paths at which a directory exists
    rel_arg,         \* argument of the last get_external_data call
    pre_files,       \* files when that call started
    pre_dirs,        \* dirs when that call started
    trace,           \* the I/O steps that call performed, in order
    ret,             \* how that call ended: returned value or raised error
    \* ---- core.utils
    mo_fn,           \* map_opt: fn of the last call
    mo_v,            \* map_opt: v of the last call
    mo_calls,        \* map_opt: the arguments fn was called with, in order
    mo_ret,          \* map_opt: returned value
    remote,          \* the assets the filesystem abstraction reports to exist
    he_href,         \* href_exists: href of the last call
    he_ret,          \* href_exists: returned value
    \* ---- cli
    logger,          \* the 'stactools' logger: its level and its handlers
    pre_logger,      \* the logger when the last cli invocation started
    invocations,     \* the (verbose, quiet) flags of every cli invocation
    setup_calls,     \* the level of every setup_logging call
    record_level,    \* level of the last record logged to 'stactools'
    emitted          \* indices of the handlers that emitted that record

dataVars  == <<self_path, external_data, files, dirs, rel_arg, pre_files,
               pre_dirs, trace, ret>>
utilsVars == <<mo_fn, mo_v, mo_calls, mo_ret, remote, he_href, he_ret>>
cliVars   == <<logger, pre_logger, invocations, setup_calls, record_level,
               emitted>>
vars      == <<dataVars, utilsVars, cliVars>>

-----------------------------------------------------------------------------
(* Python values: a type tag and the value's repr.                         *)

PyNone  == [t |-> "NoneType", r |-> "None"]
PyTrue  == [t |-> "bool", r |-> "True"]
PyFalse == [t |-> "bool", r |-> "False"]
PyInt(r)  == [t |-> "int", r |-> r]
PyStr(r)  == [t |-> "str", r |-> r]
PyDict(r) == [t |-> "dict", r |-> r]
PyList(r) == [t |-> "list", r |-> r]
PyBool(b) == IF b THEN PyTrue ELSE PyFalse

\* bool(x): the truth value Python's `if x`, `x and y`, `not x` test.
Truthy(x) ==
    CASE x.t = "NoneType" -> FALSE
      [] x.t = "bool"     -> x.r = "True"
      [] x.t = "int"      -> x.r # "0"
      [] x.t = "str"      -> x.r # ""
      [] x.t = "dict"     -> x.r # "{}"
      [] x.t = "list"     -> x.r # "[]"

\* `a and b`: a when a is falsy, b otherwise.
PyAnd(a, b) == IF Truthy(a) THEN b ELSE a

-----------------------------------------------------------------------------
(* os.path on POSIX. A path is the sequence of its components; an absolute *)
(* path starts with the component "/".                                     *)

Cwd == <<"/", "work">>

isabs(p) == p # <<>> /\ p[1] = "/"

join(a, b) == IF isabs(b) THEN b ELSE a \o b

dirname(p) == IF p = <<>> THEN <<>> ELSE SubSeq(p, 1, Len(p) - 1)

RECURSIVE norm(_, _)
\* acc: the normalised prefix; rest: the components still to read.
norm(acc, rest) ==
    IF rest = <<>> THEN acc
    ELSE LET c == Head(rest) IN
         IF c = "." THEN norm(acc, Tail(rest))
         ELSE IF c = ".."
              THEN IF acc = <<>> \/ acc[Len(acc)] = ".."
                   THEN norm(Append(acc, c), Tail(rest))
                   ELSE IF acc = <<"/">>
                        THEN norm(acc, Tail(rest))
                        ELSE norm(SubSeq(acc, 1, Len(acc) - 1), Tail(rest))
              ELSE norm(Append(acc, c), Tail(rest))

normpath(p) == norm(<<>>, p)

abspath(p) == normpath(IF isabs(p) THEN p ELSE join(Cwd, p))

\* os.path.exists(path): a file or a directory is there.
os_path_exists(fs, p) == p \in fs.files \/ p \in fs.dirs

\* os.makedirs(d, exist_ok=True): d and every missing ancestor.
makedirs(fs, d) ==
    [fs EXCEPT !.dirs = @ \cup {SubSeq(d, 1, i) : i \in 1..Len(d)}]

\* open(path, "wb") ... f.write(data)
write_file(fs, p) == [fs EXCEPT !.files = @ \cup {p}]

\* shutil.move(src, dst) of a regular file onto a path that is no directory
move_file_skipped(fs, src, dst) == fs
move_file(fs, src, dst) == [fs EXCEPT !.files = (@ \ {src}) \cup {dst}]

-----------------------------------------------------------------------------
(* TestData (stactools/testing/test_data.py)                               *)

\* The keys tests ask for. The third names the same local file as the first.
RelPaths == { <<"a.hdf">>, <<"sub", "b.tif">>, <<"..", "external", "a.hdf">> }

\* TestData(__file__): absolute, or relative to the working directory.
SelfPaths == { <<"/", "repo", "tests", "__init__.py">>,
               <<"tests", "__init__.py">> }

NoEntry == [url |-> <<>>, s3 |-> PyNone, planetary_computer |-> PyNone,
            compress |-> PyNone, present |-> FALSE]

Url(rel) == <<"https://host">> \o rel

\* The values an entry may hold under 's3', 'planetary_computer', 'compress';
\* PyNone stands for an absent key (dict.get returns None).
S3Values       == { PyNone, PyDict("{}"), PyDict("{'anon': True}") }
PcValues       == { PyNone, PyFalse, PyTrue }
CompressValues == { PyNone, PyStr("zip") }

Entry(rel, s3, pc, compress) ==
    [url |-> Url(rel), s3 |-> s3, planetary_computer |-> pc,
     compress |-> compress, present |-> TRUE]

PlainEntry(rel) == Entry(rel, PyNone, PyNone, PyNone)

EntriesFor(rel) ==
    { Entry(rel, s3, pc, c) : s3 \in S3Values, pc \in PcValues,
                              c \in CompressValues }

\* The configurations explored: every key is absent or configured, and at
\* most one key has an entry other than the plain one.
BaseConfigs ==
    { [r \in RelPaths |-> IF r \in D THEN PlainEntry(r) ELSE NoEntry] :
        D \in SUBSET RelPaths }

ExternalDataChoices ==
    BaseConfigs \cup
    UNION { { [ed EXCEPT ![r] = e] : e \in EntriesFor(r) } :
              ed \in BaseConfigs, r \in RelPaths }

\* What the outside world does during one call.
Envs == [s3fs_installed : BOOLEAN,  \* `import s3fs` succeeds
         sign_ok : BOOLEAN,         \* the signing request returns 2xx
         read_ok : BOOLEAN,         \* the remote open and read succeed
         content : {"plain", "zip", "emptyzip"}]  \* what the bytes are

Ev(op, arg) == [op |-> op, arg |-> arg]
Return(value) == [kind |-> "return", value |-> value]
Raise(error)  == [kind |-> "raise", value |-> <<error>>]
NoCall        == [kind |-> "none", value |-> <<>>]

get_path(path, rel_path) == abspath(join(dirname(path), rel_path))

TargetPath(path, rel_path) ==
    get_path(path, join(<<"data-files", "external">>, rel_path))

\* line 86: os.path.exists(path)
TargetExists_rel(fs, path, rel_path) == os_path_exists(fs, abspath(rel_path))
TargetExists(fs, path, rel_path) == os_path_exists(fs, TargetPath(path, rel_path))

SignRequest(href) ==
    <<"https://planetarycomputer.microsoft.com/api/sas/v1/sign?href=">> \o href
\* r.json()["href"]: the href with the service's token appended
Signed(href) == href \o <<"?sas-token">>

\* lines 99, 113, 125: which branch downloads
Strategy_pc_first(entry) ==
    IF Truthy(entry.planetary_computer) THEN "planetary_computer"
    ELSE IF Truthy(entry.s3) THEN "s3"
    ELSE "fsspec"
Strategy(entry) ==
    IF Truthy(entry.s3) THEN "s3"
    ELSE IF Truthy(entry.planetary_computer) THEN "planetary_computer"
    ELSE "fsspec"

\* lines 97-127: err is "" when data was read in full.
Download(entry, env) ==
    LET rd(t) == IF env.read_ok THEN [err |-> "", trace |-> t]
                 ELSE [err |-> "OSError", trace |-> t]
    IN CASE Strategy(entry) = "s3" ->
              IF ~env.s3fs_installed
              THEN [err |-> "ImportError", trace |-> <<Ev("import s3fs", <<>>)>>]
              ELSE rd(<<Ev("import s3fs", <<>>), Ev("s3.open", entry.url)>>)
         [] Strategy(entry) = "planetary_computer" ->
              IF ~env.sign_ok
              THEN [err |-> "HTTPError",
                    trace |-> <<Ev("requests.get", SignRequest(entry.url))>>]
              ELSE rd(<<Ev("requests.get", SignRequest(entry.url)),
                        Ev("fsspec.open", Signed(entry.url))>>)
         [] Strategy(entry) = "fsspec" ->
              rd(<<Ev("fsspec.open", entry.url)>>)

\* lines 129-140: unzip into the working directory and move, or write.
Store(fs, path, entry, env) ==
    IF entry.compress = PyStr("zip")
    THEN CASE env.content = "plain" ->
                [fs |-> fs, err |-> "BadZipFile", trace |-> <<Ev("ZipFile", <<>>)>>]
           [] env.content = "emptyzip" ->
                [fs |-> fs, err |-> "IndexError", trace |-> <<Ev("ZipFile", <<>>)>>]
           [] env.content = "zip" ->
                LET extracted_path == join(Cwd, <<"member">>)
                IN [fs |-> move_file(write_file(fs, extracted_path),
                                     extracted_path, path),
                    err |-> "",
                    trace |-> <<Ev("ZipFile", <<>>),
                                Ev("extract", extracted_path),
                                Ev("shutil.move", path)>>]
    ELSE [fs |-> write_file(fs, path), err |-> "",
          trace |-> <<Ev("write", path)>>]

\* lines 97-140 with the parent directory in place
FetchAndStore_streaming(fs, path, entry, env) ==
    LET dl == Download(entry, env)
        st == Store(fs, path, entry, env)
    IN IF dl.err # ""
       THEN [fs |-> write_file(fs, path),
             trace |-> <<Ev("write", path)>> \o dl.trace, ret |-> Raise(dl.err)]
       ELSE [fs |-> st.fs, trace |-> dl.trace \o st.trace,
             ret |-> IF st.err # "" THEN Raise(st.err) ELSE Return(path)]
FetchAndStore(fs, path, entry, env) ==
    LET dl == Download(entry, env)
        st == Store(fs, path, entry, env)
    IN IF dl.err # ""
       THEN [fs |-> fs, trace |-> dl.trace, ret |-> Raise(dl.err)]
       ELSE [fs |-> st.fs, trace |-> dl.trace \o st.trace,
             ret |-> IF st.err # "" THEN Raise(st.err) ELSE Return(path)]

\* lines 87-95: look the entry up; raise, or create the parent directory
LookupAndPrepare_mkdir_first(fs, path, entry, env) ==
    LET made == makedirs(fs, dirname(path))
        mk   == <<Ev("lookup", <<>>), Ev("makedirs", dirname(path))>>
    IN IF ~entry.present
       THEN [fs |-> made, trace |-> mk, ret |-> Raise("Exception")]
       ELSE LET r == FetchAndStore(made, path, entry, env)
            IN [r EXCEPT !.trace = mk \o @]
LookupAndPrepare(fs, path, entry, env) ==
    IF ~entry.present
    THEN [fs |-> fs, trace |-> <<Ev("lookup", <<>>)>>, ret |-> Raise("Exception")]
    ELSE LET r == FetchAndStore(makedirs(fs, dirname(path)), path, entry, env)
         IN [r EXCEPT !.trace =
                <<Ev("lookup", <<>>), Ev("makedirs", dirname(path))>> \o @]

\* lines 85-142
get_external_data(path_, ed, fs, rel_path, env) ==
    LET path == TargetPath(path_, rel_path)
    IN IF ~TargetExists(fs, path_, rel_path)
       THEN LET r == LookupAndPrepare(fs, path, ed[rel_path], env)
            IN [r EXCEPT !.trace = <<Ev("exists", path)>> \o @]
       ELSE [fs |-> fs, trace |-> <<Ev("exists", path)>>, ret |-> Return(path)]

TargetPaths(path) == { TargetPath(path, r) : r \in RelPaths }

Ancestors(p) == { SubSeq(p, 1, i) : i \in 1..Len(p) }

\* The directories that exist before any download: the working directory,
\* the directory holding self.path, and the parents of the files present.
BaseDirs(path, fs) ==
    Ancestors(Cwd) \cup Ancestors(dirname(abspath(path)))
      \cup UNION { Ancestors(dirname(f)) : f \in fs }

DataInit ==
    /\ self_path \in SelfPaths
    /\ external_data \in ExternalDataChoices
    /\ files \in SUBSET TargetPaths(self_path)
    /\ dirs = BaseDirs(self_path, files)
    /\ rel_arg = <<>>
    /\ pre_files = files
    /\ pre_dirs = dirs
    /\ trace = <<>>
    /\ ret = NoCall

DataIdle ==
    /\ self_path = <<"tests", "__init__.py">>
    /\ external_data = [r \in RelPaths |-> NoEntry]
    /\ files = {}
    /\ dirs = {}
    /\ rel_arg = <<>>
    /\ pre_files = {}
    /\ pre_dirs = {}
    /\ trace = <<>>
    /\ ret = NoCall

\* test_data.get_external_data(rel_path)
CallGetExternalData(rel_path, env) ==
    \E r \in { get_external_data(self_path, external_data,
                                 [files |-> files, dirs |-> dirs],
                                 rel_path, env) } :
       /\ rel_arg' = rel_path
       /\ pre_files' = files
       /\ pre_dirs' = dirs
       /\ files' = r.fs.files
       /\ dirs' = r.fs.dirs
       /\ trace' = r.trace
       /\ ret' = r.ret
       /\ UNCHANGED <<self_path, external_data>>

-----------------------------------------------------------------------------
(* stactools/core/utils/__init__.py                                        *)

\* The callables handed to map_opt, by name.
Fns == {"identity", "bool", "is_none", "const_none"}

Apply(fn, v) ==
    CASE fn = "identity"   -> v
      [] fn = "bool"       -> PyBool(Truthy(v))
      [] fn = "is_none"    -> PyBool(v = PyNone)
      [] fn = "const_none" -> PyNone

Values == { PyNone, PyInt("0"), PyInt("7"), PyStr(""), PyStr("x"),
            PyFalse, PyTrue, PyList("[]") }

\* line 13; calls lists the arguments fn received.
map_opt_falsy(fn, v) ==
    IF ~Truthy(v) THEN [ret |-> v, calls |-> <<>>]
    ELSE [ret |-> Apply(fn, v), calls |-> <<v>>]
map_opt(fn, v) ==
    IF v = PyNone THEN [ret |-> v, calls |-> <<>>]
    ELSE [ret |-> Apply(fn, v), calls |-> <<v>>]

\* The assets that may exist, in sorted order.
Assets == <<"/data/a.tif", "/data/b.tif">>

Hrefs == {"/data/a.tif", "/data/b.tif", "/data/*.tif", "/tmp/*.zip"}

IsGlob(href) == href \in {"/data/*.tif", "/tmp/*.zip"}

Matches(href, asset) == href = "/data/*.tif"

\* fsspec.get_fs_token_paths(href)[2]: the href itself, or what it globs to.
Paths(href, existing) ==
    IF IsGlob(href)
    THEN SelectSeq(Assets, LAMBDA a : a \in existing /\ Matches(href, a))
    ELSE <<href>>

PyListOf(seq) == PyList(IF seq = <<>> THEN "[]" ELSE "[...]")

\* lines 22-23: `paths and fs.exists(paths[0])`
href_exists(href, existing) ==
    LET paths == Paths(href, existing)
    IN PyAnd(PyListOf(paths), PyBool(paths[1] \in existing))

UtilsInit ==
    /\ mo_fn = ""
    /\ mo_v = PyNone
    /\ mo_calls = <<>>
    /\ mo_ret = PyNone
    /\ remote \in SUBSET { Assets[i] : i \in 1..Len(Assets) }
    /\ he_href = ""
    /\ he_ret = PyNone

UtilsIdle ==
    /\ mo_fn = ""
    /\ mo_v = PyNone
    /\ mo_calls = <<>>
    /\ mo_ret = PyNone
    /\ remote = {}
    /\ he_href = ""
    /\ he_ret = PyNone

CallMapOpt(fn, v) ==
    /\ mo_fn' = fn
    /\ mo_v' = v
    /\ mo_calls' = map_opt(fn, v).calls
    /\ mo_ret' = map_opt(fn, v).ret
    /\ UNCHANGED <<remote, he_href, he_ret>>

CallHrefExists(href) ==
    /\ he_href' = href
    /\ he_ret' = href_exists(href, remote)
    /\ UNCHANGED <<mo_fn, mo_v, mo_calls, mo_ret, remote>>

-----------------------------------------------------------------------------
(* stactools_cli/stactools/cli/cli.py                                      *)

DEBUG == 10
INFO  == 20
ERROR == 40

\* logging's levels: DEBUG, INFO, WARNING, ERROR, CRITICAL
RecordLevels == {DEBUG, INFO, 30, ERROR, 50}

MaxInvocations == 3

\* lines 8-17: the logger is its level and the levels of its handlers.
setup_logging_replace(lg, level) == [level |-> level, handlers |-> <<level>>]
setup_logging(lg, level) ==
    [level |-> level, handlers |-> Append(lg.handlers, level)]

\* lines 27-31
LoggingLevel_verbose_wins(verbose, quiet) ==
    IF verbose THEN DEBUG ELSE IF quiet THEN ERROR ELSE INFO
LoggingLevel(verbose, quiet) ==
    LET l0 == INFO
        l1 == IF verbose THEN DEBUG ELSE l0
        l2 == IF quiet THEN ERROR ELSE l1
    IN l2

\* lines 26-32: the logger afterwards and the setup_logging calls made
cli(lg, verbose, quiet) ==
    [logger |-> setup_logging(lg, LoggingLevel(verbose, quiet)),
     calls  |-> <<LoggingLevel(verbose, quiet)>>]

\* Logger.getEffectiveLevel: an unset logger inherits the root's WARNING.
EffectiveLevel(lg) == IF lg.level = 0 THEN 30 ELSE lg.level

\* The handlers of lg that emit a record of this level logged to lg.
Emitters(lg, level) ==
    { i \in 1..Len(lg.handlers) :
        level >= EffectiveLevel(lg) /\ level >= lg.handlers[i] }

CliInit ==
    /\ logger = [level |-> 0, handlers |-> <<>>]
    /\ pre_logger = logger
    /\ invocations = <<>>
    /\ setup_calls = <<>>
    /\ record_level = 0
    /\ emitted = {}

\* stactools [-v] [-q] ...
InvokeCli(verbose, quiet) ==
    /\ Len(invocations) < MaxInvocations
    /\ pre_logger' = logger
    /\ logger' = cli(logger, verbose, quiet).logger
    /\ setup_calls' = setup_calls \o cli(logger, verbose, quiet).calls
    /\ invocations' = Append(invocations, [verbose |-> verbose, quiet |-> quiet])
    /\ record_level' = 0
    /\ emitted' = {}

\* logging.getLogger('stactools').log(level, ...)
LogRecord(level) ==
    /\ record_level' = level
    /\ emitted' = Emitters(logger, level)
    /\ UNCHANGED <<logger, pre_logger, invocations, setup_calls>>

-----------------------------------------------------------------------------
(* The specifications                                                      *)

InitData == DataInit /\ UtilsIdle /\ CliInit
NextData ==
    \E rel_path \in RelPaths, env \in Envs :
        CallGetExternalData(rel_path, env) /\ UNCHANGED <<utilsVars, cliVars>>
SpecData == InitData /\ [][NextData]_vars

InitUtils == DataIdle /\ UtilsInit /\ CliInit
NextUtils ==
    \/ \E fn \in Fns, v \in Values :
          CallMapOpt(fn, v) /\ UNCHANGED <<dataVars, cliVars>>
    \/ \E href \in Hrefs :
          CallHrefExists(href) /\ UNCHANGED <<dataVars, cliVars>>
SpecUtils == InitUtils /\ [][NextUtils]_vars

InitCli == DataIdle /\ UtilsIdle /\ CliInit
NextCli ==
    \/ \E verbose \in BOOLEAN, quiet \in BOOLEAN :
          InvokeCli(verbose, quiet) /\ UNCHANGED <<dataVars, utilsVars>>
    \/ \E level \in RecordLevels :
          LogRecord(level) /\ UNCHANGED <<dataVars, utilsVars>>
SpecCli == InitCli /\ [][NextCli]_vars

-----------------------------------------------------------------------------
(* Properties of TestData.get_external_data, stated on the last call       *)

Called == ret.kind # "none"

\* The target of the last call, as the docstring of get_path defines it.
LastPath == get_path(self_path, <<"data-files", "external">> \o rel_arg)

ExistedBefore == LastPath \in pre_files \/ LastPath \in pre_dirs

LastEntry == external_data[rel_arg]

Ops == { trace[i].op : i \in 1..Len(trace) }

DownloadOps == {"import s3fs", "s3.open", "requests.get", "fsspec.open"}
UnzipOps    == {"ZipFile", "extract"}
WriteOps    == {"write", "shutil.move"}

DownloadErrors == { <<"ImportError">>, <<"HTTPError">>, <<"OSError">> }

\* C1: a call that finds the local file in place returns its path and does
\* nothing else: no lookup in external_data, no download of any kind, no
\* directory created, no file written, and no error even without an entry.
C1_Lazy ==
    (Called /\ ExistedBefore) =>
        /\ ret = Return(LastPath)
        /\ trace = <<Ev("exists", LastPath)>>
        /\ files = pre_files
        /\ dirs = pre_dirs

C1_Witness ==
    /\ Called
    /\ ExistedBefore
    /\ ~LastEntry.present
    /\ ret.kind = "return"

\* C2: with no local file and no entry the call raises and leaves the
\* filesystem as it was: nothing downloaded, no parent directory created,
\* no file written.
C2_MissingEntryRaises ==
    (Called /\ ~ExistedBefore /\ ~LastEntry.present) =>
        /\ ret.kind = "raise"
        /\ files = pre_files
        /\ dirs = pre_dirs
        /\ Ops \cap (DownloadOps \cup UnzipOps \cup WriteOps \cup {"makedirs"}) = {}

C2_Witness ==
    /\ Called
    /\ ~ExistedBefore
    /\ ~LastEntry.present
    /\ dirname(LastPath) \notin dirs
    /\ ret = Raise("Exception")

\* C3: a call that reaches the download step runs exactly one strategy,
\* chosen by the entry: s3fs when entry['s3'] is truthy, else the signed
\* Planetary Computer download when entry['planetary_computer'] is truthy,
\* else a plain fsspec open of entry['url']. The Planetary Computer branch
\* never opens the unsigned url; the other two never contact the signer.
C3_OneStrategy ==
    (Called /\ "makedirs" \in Ops) =>
        IF Truthy(LastEntry.s3)
        THEN /\ trace[4] = Ev("import s3fs", <<>>)
             /\ Ops \cap {"requests.get", "fsspec.open"} = {}
             /\ \A i \in 1..Len(trace) :
                   trace[i].op = "s3.open" => trace[i].arg = LastEntry.url
        ELSE IF Truthy(LastEntry.planetary_computer)
        THEN /\ trace[4] = Ev("requests.get", SignRequest(LastEntry.url))
             /\ Ops \cap {"import s3fs", "s3.open"} = {}
             /\ \A i \in 1..Len(trace) :
                   trace[i].op = "fsspec.open" =>
                       /\ trace[i].arg = Signed(LastEntry.url)
                       /\ trace[i].arg # LastEntry.url
        ELSE /\ trace[4] = Ev("fsspec.open", LastEntry.url)
             /\ Ops \cap {"import s3fs", "s3.open", "requests.get"} = {}

C3_Witness ==
    /\ Called
    /\ Truthy(LastEntry.s3)
    /\ Truthy(LastEntry.planetary_computer)
    /\ "s3.open" \in Ops
    /\ ret.kind = "return"

\* C4: whenever the call returns, on any branch, the value is
\* get_path('data-files/external/' + rel_path), an absolute path, and
\* os.path.exists holds of it at that moment.
C4_ReturnsExistingPath ==
    (Called /\ ret.kind = "return") =>
        /\ ret.value = LastPath
        /\ isabs(ret.value)
        /\ os_path_exists([files |-> files, dirs |-> dirs], ret.value)

C4_Witness ==
    /\ Called
    /\ ret.kind = "return"
    /\ ~ExistedBefore
    /\ "shutil.move" \in Ops
    /\ LastEntry.compress = PyStr("zip")

Rank(op) ==
    CASE op = "exists"       -> 1
      [] op = "lookup"       -> 2
      [] op = "makedirs"     -> 3
      [] op \in DownloadOps  -> 4
      [] op \in UnzipOps     -> 5
      [] op \in WriteOps     -> 6

\* C9: the steps run in the order existence check, lookup, parent-directory
\* creation, download, unzip, write; the target is written only after the
\* download has completed; and when the download fails the error reaches the
\* caller, no file is at the target path, and the only change on disk is the
\* parent directory.
C9_OrderAndFailedDownload ==
    Called =>
        /\ trace[1] = Ev("exists", LastPath)
        /\ \A i, j \in 1..Len(trace) :
              i < j => Rank(trace[i].op) <= Rank(trace[j].op)
        /\ \A j \in 1..Len(trace) :
              trace[j].op \in WriteOps =>
                  /\ trace[j].arg = LastPath
                  /\ ret.value \notin DownloadErrors
                  /\ \E i \in 1..(j - 1) : trace[i].op \in DownloadOps
        /\ (ret.kind = "raise" /\ ret.value \in DownloadErrors) =>
              /\ LastPath \notin files
              /\ LastPath \notin dirs
              /\ files = pre_files
              /\ dirs = pre_dirs \cup Ancestors(dirname(LastPath))
              /\ Ops \cap (UnzipOps \cup WriteOps) = {}

C9_Witness ==
    /\ ret = Raise("OSError")
    /\ dirname(LastPath) \notin pre_dirs
    /\ dirname(LastPath) \in dirs
    /\ "fsspec.open" \in Ops

-----------------------------------------------------------------------------
(* Properties of core.utils                                                *)

\* C5: map_opt(fn, v) returns None without calling fn when v is None, and
\* returns fn(v), calling fn exactly once on v, for every other v, falsy
\* values such as 0, '' and False included.
C5_MapOpt ==
    mo_fn # "" =>
        IF mo_v = PyNone
        THEN mo_ret = PyNone /\ mo_calls = <<>>
        ELSE mo_ret = Apply(mo_fn, mo_v) /\ mo_calls = <<mo_v>>

C5_Witness ==
    /\ mo_fn = "is_none"
    /\ mo_v = PyInt("0")
    /\ mo_ret = PyFalse
    /\ mo_calls = <<PyInt("0")>>

\* C6: href_exists(href) returns a boolean for every href: True when the
\* filesystem reports the asset to exist and False otherwise, also when href
\* resolves to an empty list of paths.
C6_HrefExistsIsBool ==
    he_href # "" =>
        /\ he_ret.t = "bool"
        /\ he_ret = PyTrue <=>
              \E i \in 1..Len(Assets) :
                 /\ Assets[i] \in remote
                 /\ (Assets[i] = he_href \/ Matches(he_href, Assets[i]))

-----------------------------------------------------------------------------
(* Properties of the cli                                                   *)

\* C7: a handler installed by an invocation with --quiet emits no record
\* logged to 'stactools', whatever its level.
C7_QuietNoOutput ==
    \A i \in emitted : ~invocations[i].quiet

\* C8: the level cli passes to setup_logging depends on the two flags only,
\* quiet before verbose: ERROR with quiet, DEBUG with verbose alone, INFO with
\* neither; setup_logging runs once per invocation and sets the logger and
\* the new handler to that level.
C8_LevelFromFlags ==
    /\ Len(setup_calls) = Len(invocations)
    /\ \A i \in 1..Len(invocations) :
          setup_calls[i] = CASE invocations[i].quiet   -> ERROR
                             [] ~invocations[i].quiet /\ invocations[i].verbose -> DEBUG
                             [] OTHER -> INFO
    /\ invocations # <<>> =>
          /\ logger.level = setup_calls[Len(setup_calls)]
          /\ logger.handlers # <<>>
          /\ logger.handlers[Len(logger.handlers)] = setup_calls[Len(setup_calls)]

C8_Witness ==
    /\ Len(invocations) >= 2
    /\ invocations[Len(invocations)] = [verbose |-> TRUE, quiet |-> TRUE]
    /\ logger.level = ERROR

\* C10: every setup_logging call adds one handler and removes none: after n
\* invocations the logger holds n handlers more, each at the level it was
\* created with, and the logger's level is that of the latest call.
C10_HandlersAccumulate ==
    /\ Len(logger.handlers) = Len(invocations)
    /\ \A i \in 1..Len(logger.handlers) : logger.handlers[i] = setup_calls[i]
    /\ invocations # <<>> =>
          /\ Len(logger.handlers) = Len(pre_logger.handlers) + 1
          /\ SubSeq(logger.handlers, 1, Len(pre_logger.handlers)) = pre_logger.handlers
          /\ logger.level = setup_calls[Len(setup_calls)]

C10_Witness ==
    /\ Len(invocations) = 3
    /\ logger.handlers = <<DEBUG, ERROR, INFO>>
    /\ logger.level = INFO

====
